---- MODULE Spec2Model ----
(***************************************************************************)
(* Model of the postgres and deployments audits of coroot                  *)
(* (auditor/postgres.go, auditor/deployments.go).                          *)
(*                                                                         *)
(* Four specifications share the variables below; each one drives one part *)
(* of the code and leaves the other parts idle:                            *)
(*   SpecLag     checkReplicationLag on one instance                       *)
(*   SpecConn    pgConnections on one instance                             *)
(*   SpecAudit   the use of the Aggregates during one postgres() pass      *)
(*   SpecDeploy  the deployments() pass                                    *)
(*                                                                         *)
(* float64 values are integers plus the value NaN; every comparison with   *)
(* NaN is false, as in IEEE 754.  Time is counted in seconds.              *)
(***************************************************************************)
EXTENDS Integers, Sequences, FiniteSets, TLC

\* ---------------------------------------------------------------- bounds
MaxLen == 3          \* longest primary-position series
MaxVal == 3          \* largest sample value of a position series

\* ------------------------------------------------------- float64 and NaN
NaN == -1

IsNaN(v) == v = NaN

\* a > b on float64: false when either side is NaN
Gt(a, b) == ~IsNaN(a) /\ ~IsNaN(b) /\ a > b

\* a - b on float64: NaN when either side is NaN
FSub(a, b) == IF IsNaN(a) \/ IsNaN(b) THEN NaN ELSE a - b

Floats == (0..MaxVal) \cup {NaN}

SeriesOfLen(n) == [1..n -> Floats]

AllSeries == UNION {SeriesOfLen(n) : n \in 0..MaxLen}

MaxOf(S) == CHOOSE x \in S : \A y \in S : y <= x

MinOf(S) == CHOOSE x \in S : \A y \in S : x <= y

\* ------------------------------------------------------------ timeseries
\* The sampling grid of a computation: the time of sample 1 and the step.
\* Times are unix seconds, hence positive.
Grids == {[from |-> 10, step |-> 1], [from |-> 60, step |-> 15]}

TimeAt(g, i) == g.from + (i - 1) * g.step

IsEmpty(ts) == Len(ts) = 0

Last(ts) == IF IsEmpty(ts) THEN NaN ELSE ts[Len(ts)]

NotNullIdx(ts) == {i \in 1..Len(ts) : ~IsNaN(ts[i])}

\* (time, value) of the latest sample that is not NaN; (0, NaN) when none
LastNotNull(g, ts) ==
    IF NotNullIdx(ts) = {} THEN <<0, NaN>>
    ELSE <<TimeAt(g, MaxOf(NotNullIdx(ts))), ts[MaxOf(NotNullIdx(ts))]>>

\* Time.IsZero
IsZero(tm) == tm = 0

\* ----------------------------------------------------------------- roles
ClusterRolePrimary == "primary"
ClusterRoleReplica == "replica"
ClusterRoleNone == "unknown"
ClusterRoles == {ClusterRolePrimary, ClusterRoleReplica, ClusterRoleNone}

\* ----------------------------------------------------------------- Check
\* Check.AddItem: the items are kept in insertion order, one entry per name
AddItem(check, name) ==
    IF \E i \in 1..Len(check.items) : check.items[i] = name THEN check
    ELSE [check EXCEPT !.items = Append(@, name)]

\* timeseries.Duration(check.Threshold): float to integer, towards zero.
\* The threshold is kept in half seconds so that the truncation is visible.
DurationOfThreshold(halves) == halves \div 2

VARIABLES
    \* checkReplicationLag
    grid,            \* sampling grid of primaryLsn
    primaryLsn,      \* the primary-position series (primaryLsn.Get())
    replayLsn,       \* the instance's WalReplayLsn, cut to its latest sample
    role,            \* i.ClusterRoleLast()
    replicationCheck,\* the replication-lag Check: Threshold (half seconds), items
    pcLag,           \* position inside checkReplicationLag
    last,            \* lag.Last()
    tCurr, vCurr,    \* primaryLsn.LastNotNull()
    iter,            \* number of samples the iterator has delivered
    t, tPast, vPast, \* the loop's variables
    lagTime,         \* tCurr.Sub(tPast)
    res,             \* the returned table cell
    \* pgConnections
    connections,     \* instance.Postgres.Connections: key -> series
    settings,        \* instance.Postgres.Settings: name -> samples
    connectionsCheck,\* the connections Check: Threshold (percent), items
    pcConn,          \* position inside pgConnections
    visited,         \* keys the first range loop has delivered
    connectionByState, \* state -> Aggregate
    total,           \* the running total
    chart,           \* the stacked chart: state -> series
    idleInTransaction, locked, \* the keys of the two breakdown charts
    \* postgres(): the Aggregates of one pass
    instances,       \* a.app.Instances
    pcAudit,         \* position inside postgres()
    idx,             \* index of the instance the current loop is at
    aggs,            \* every Aggregate created so far: id -> Aggregate
    tableRows,       \* names of the instances that got a table row
    \* deployments()
    statuses,        \* model.CalcApplicationDeploymentStatuses(...)
    now,             \* timeseries.Now()
    pcDeploy,        \* position inside deployments()
    dsIdx,           \* the loop's i
    deploymentStatusCheck, \* the DeploymentStatus Check: its value, if set
    table            \* the rows of the deployments table

lagVars == <<grid, primaryLsn, replayLsn, role, replicationCheck, pcLag, last,
             tCurr, vCurr, iter, t, tPast, vPast, lagTime, res>>

connVars == <<connections, settings, connectionsCheck, pcConn, visited,
              connectionByState, total, chart, idleInTransaction, locked>>

auditVars == <<instances, pcAudit, idx, aggs, tableRows>>

deployVars == <<statuses, now, pcDeploy, dsIdx, deploymentStatusCheck, table>>

vars == <<lagVars, connVars, auditVars, deployVars>>

notLag == <<connVars, auditVars, deployVars>>
notConn == <<lagVars, auditVars, deployVars>>
notAudit == <<lagVars, connVars, deployVars>>
notDeploy == <<lagVars, connVars, auditVars>>

\* ------------------------------------------------------ pgReplicationLag
\* the combining function of pgReplicationLag on one pair of samples
LagOfSample(primary, replay) ==
    IF IsNaN(primary) \/ IsNaN(replay) THEN NaN
    ELSE IF primary - replay < 0 THEN 0 ELSE primary - replay

\* lag.Last() for lag = pgReplicationLag(primaryLsn, WalReplayLsn): Aggregate2
\* combines the two series sample by sample on the same grid, and yields no
\* series when one of them is empty.
LagLast(primary, replay) ==
    IF IsEmpty(primary) \/ IsEmpty(replay) THEN NaN
    ELSE LagOfSample(Last(primary), Last(replay))

\* --------------------------------------------------- checkReplicationLag
InstanceName == "pg-1"
OtherInstance == "pg-0"

EmptyCell == [Value |-> <<>>, Unit |-> "", Tags |-> <<>>]

\* utils.FormatBytes: a value text and a unit, both non-empty
FormatBytes(v) == [Value |-> <<v>>, Unit |-> "B"]

\* the early returns without the test of the role
LagNoResultAnyRole(p, r, l) == IsEmpty(p) \/ IsNaN(l)

\* the three early returns
LagNoResult(p, r, l) == IsEmpty(p) \/ r # ClusterRoleReplica \/ IsNaN(l)

\* "if vPast > vCurr": the sample lies before a counter reset
IsWraparound(v, vNow) == Gt(v, vNow)

\* the break taken already at v = vCurr - last
IsAheadInclusive(v, vNow, l) ==
    ~IsNaN(v) /\ ~IsNaN(FSub(vNow, l)) /\ v >= FSub(vNow, l)

\* the break taken below the replica's position instead of above it
IsAheadReversed(v, vNow, l) == Gt(FSub(vNow, l), v)

\* "if vPast > vCurr-last": the sample is newer than the replica's position
IsAhead(v, vNow, l) == Gt(v, FSub(vNow, l))

\* "if lagTime > timeseries.Duration(check.Threshold)"
LagExceeds(lt, check) == lt > DurationOfThreshold(check.Threshold)

\* thresholds of the replication-lag Check, in half seconds
LagThresholds == {0, 1, 3, 30}

LagInit ==
    /\ grid \in Grids
    /\ primaryLsn \in AllSeries
    /\ replayLsn \in SeriesOfLen(0) \cup SeriesOfLen(1)
    /\ role \in ClusterRoles
    /\ replicationCheck \in [Threshold : LagThresholds, items : {<<>>, <<OtherInstance>>}]
    /\ pcLag = "call"
    /\ last = NaN
    /\ tCurr = 0 /\ vCurr = NaN
    /\ iter = 0
    /\ t = 0 /\ tPast = 0 /\ vPast = NaN
    /\ lagTime = 0
    /\ res = EmptyCell

\* lines 138-148: one of the early returns is taken
LagReturnEmpty ==
    /\ UNCHANGED notLag
    /\ pcLag = "call"
    /\ LagNoResult(primaryLsn, role, LagLast(primaryLsn, replayLsn))
    /\ res' = EmptyCell
    /\ pcLag' = "done"
    /\ UNCHANGED <<grid, primaryLsn, replayLsn, role, replicationCheck, last,
                   tCurr, vCurr, iter, t, tPast, vPast, lagTime>>

\* lines 145-152: no early return; the loop's variables are set up
LagBegin ==
    /\ UNCHANGED notLag
    /\ pcLag = "call"
    /\ ~LagNoResult(primaryLsn, role, LagLast(primaryLsn, replayLsn))
    /\ last' = LagLast(primaryLsn, replayLsn)
    /\ tCurr' = LastNotNull(grid, primaryLsn)[1]
    /\ vCurr' = LastNotNull(grid, primaryLsn)[2]
    /\ t' = 0 /\ tPast' = 0 /\ vPast' = NaN
    /\ iter' = 0
    /\ pcLag' = "loop"
    /\ UNCHANGED <<grid, primaryLsn, replayLsn, role, replicationCheck, lagTime, res>>

\* lines 153-157: the next sample is beyond a reset: continue
LagSkip ==
    /\ UNCHANGED notLag
    /\ pcLag = "loop"
    /\ iter < Len(primaryLsn)
    /\ IsWraparound(primaryLsn[iter + 1], vCurr)
    /\ iter' = iter + 1
    /\ t' = TimeAt(grid, iter + 1)
    /\ vPast' = primaryLsn[iter + 1]
    /\ UNCHANGED <<grid, primaryLsn, replayLsn, role, replicationCheck, pcLag,
                   last, tCurr, vCurr, tPast, lagTime, res>>

\* lines 153-160: the next sample is ahead of the replica: break
LagBreak ==
    /\ UNCHANGED notLag
    /\ pcLag = "loop"
    /\ iter < Len(primaryLsn)
    /\ ~IsWraparound(primaryLsn[iter + 1], vCurr)
    /\ IsAhead(primaryLsn[iter + 1], vCurr, last)
    /\ iter' = iter + 1
    /\ t' = TimeAt(grid, iter + 1)
    /\ vPast' = primaryLsn[iter + 1]
    /\ pcLag' = "after"
    /\ UNCHANGED <<grid, primaryLsn, replayLsn, role, replicationCheck,
                   last, tCurr, vCurr, tPast, lagTime, res>>

\* lines 153-161: the next sample becomes tPast
LagTrack ==
    /\ UNCHANGED notLag
    /\ pcLag = "loop"
    /\ iter < Len(primaryLsn)
    /\ ~IsWraparound(primaryLsn[iter + 1], vCurr)
    /\ ~IsAhead(primaryLsn[iter + 1], vCurr, last)
    /\ iter' = iter + 1
    /\ t' = TimeAt(grid, iter + 1)
    /\ vPast' = primaryLsn[iter + 1]
    /\ tPast' = TimeAt(grid, iter + 1)
    /\ UNCHANGED <<grid, primaryLsn, replayLsn, role, replicationCheck, pcLag,
                   last, tCurr, vCurr, lagTime, res>>

\* line 153: iter.Next() is false, the loop ends
LagExhausted ==
    /\ UNCHANGED notLag
    /\ pcLag = "loop"
    /\ iter = Len(primaryLsn)
    /\ pcLag' = "after"
    /\ UNCHANGED <<grid, primaryLsn, replayLsn, role, replicationCheck,
                   last, tCurr, vCurr, iter, t, tPast, vPast, lagTime, res>>

\* lines 164-177: the lag time, the Check and the cell
LagFinish ==
    /\ UNCHANGED notLag
    /\ pcLag = "after"
    /\ lagTime' = tCurr - tPast
    /\ replicationCheck' =
          IF LagExceeds(tCurr - tPast, replicationCheck)
          THEN AddItem(replicationCheck, InstanceName)
          ELSE replicationCheck
    /\ res' = [Value |-> FormatBytes(last).Value,
               Unit  |-> FormatBytes(last).Unit,
               Tags  |-> IF tCurr - tPast > 0
                         THEN <<[gt |-> IsZero(tPast), d |-> tCurr - tPast]>>
                         ELSE <<>>]
    /\ pcLag' = "done"
    /\ UNCHANGED <<grid, primaryLsn, replayLsn, role, last, tCurr, vCurr,
                   iter, t, tPast, vPast>>

LagNext ==
    \/ LagReturnEmpty
    \/ LagBegin
    \/ LagSkip
    \/ LagBreak
    \/ LagTrack
    \/ LagExhausted
    \/ LagFinish

\* ------------------------------------------------------------- Aggregate
\* timeseries.NewAggregate: no input yet.  The log keeps the calls made on
\* the aggregate, in order.
NewAggregate(f) == [f |-> f, input |-> <<>>, log |-> <<>>]

\* Aggregate.Add: one more input; src names the series that was added
AggAdd(agg, src, ts) ==
    [agg EXCEPT !.input = Append(@, [src |-> src, ts |-> ts]),
                !.log = Append(@, "add")]

\* NanSum of a sequence of values: the sum of those that are not NaN, NaN
\* when there is none
RECURSIVE NanSumSeq(_)
NanSumSeq(vs) ==
    IF Len(vs) = 0 THEN NaN
    ELSE IF IsNaN(Head(vs)) THEN NanSumSeq(Tail(vs))
    ELSE IF IsNaN(NanSumSeq(Tail(vs))) THEN Head(vs)
    ELSE Head(vs) + NanSumSeq(Tail(vs))

RECURSIVE ValuesAt(_, _, _)
ValuesAt(input, i, j) ==
    IF j > Len(input) THEN <<>>
    ELSE IF Len(input[j].ts) >= i
         THEN <<input[j].ts[i]>> \o ValuesAt(input, i, j + 1)
         ELSE ValuesAt(input, i, j + 1)

\* the series Aggregate.Get returns for a NanSum aggregate: sample by
\* sample, the NanSum of the inputs that have that sample
AggSeries(agg) ==
    LET n == IF Len(agg.input) = 0 THEN 0
             ELSE MaxOf({Len(agg.input[j].ts) : j \in 1..Len(agg.input)})
    IN [i \in 1..n |-> NanSumSeq(ValuesAt(agg.input, i, 1))]

\* Aggregate.Get, as a call on the aggregate
AggGet(agg) == [agg EXCEPT !.log = Append(@, "get")]

\* --------------------------------------------------------- pgConnections
MaxConn == 1         \* largest latest value of a connection series

pgActiveLockedState == "active (locked)"

ConnStates == {"active", "idle in transaction"}
WaitEventTypes == {"", "Lock"}
ConnKeys == [State : ConnStates, WaitEventType : WaitEventTypes]

\* a connection series, cut to its latest sample
ConnSeries == {<<v>> : v \in (0..MaxConn) \cup {NaN}}

ReservedSettings == <<"superuser_reserved_connections",
                      "rds.rds_superuser_reserved_connections">>

SettingNames == {ReservedSettings[1], ReservedSettings[2], "max_connections"}

\* Settings[name].Samples; a setting that is absent has no samples
SettingSeries(name) ==
    IF name = "max_connections" THEN {<<>>, <<0>>, <<2>>, <<5>>}
    ELSE {<<>>, <<1>>}

ConnThresholds == {50, 100}

\* the raw state for every key, lock waits included
CanonicalStateRaw(k) == k.State

\* lines 199-202: the canonical bucket of a key
CanonicalState(k) ==
    IF k.State = "active" /\ k.WaitEventType = "Lock"
    THEN pgActiveLockedState
    ELSE k.State

\* "if last := v.Last(); !math.IsNaN(last) { total += last }"
AddLast(tot, ts) == IF IsNaN(Last(ts)) THEN tot ELSE tot + Last(ts)

\* only the first reserved setting reaches the total
AddReservedFirstOnly(tot, st) == AddLast(tot, st[ReservedSettings[1]])

\* lines 212-218 on the total: both reserved settings are added
AddReserved(tot, st) ==
    AddLast(AddLast(tot, st[ReservedSettings[1]]), st[ReservedSettings[2]])

\* lines 219-220: "max > 0 && total > 0" and "total/max*100 > Threshold";
\* the quotient is taken exactly
ConnExceeds(tot, max, threshold) ==
    /\ Gt(max, 0)
    /\ tot > 0
    /\ tot * 100 > threshold * max

FunSets(keys) == [keys -> ConnSeries]

ConnInit ==
    /\ connections \in UNION {FunSets(ks) : ks \in SUBSET ConnKeys}
    /\ settings \in {st \in [SettingNames -> {<<>>, <<0>>, <<1>>, <<2>>, <<5>>}] :
                        \A n \in SettingNames : st[n] \in SettingSeries(n)}
    /\ connectionsCheck \in [Threshold : ConnThresholds,
                             items : {<<>>, <<OtherInstance>>}]
    /\ pcConn = "loop"
    /\ visited = {}
    /\ connectionByState = <<>>
    /\ total = 0
    /\ chart = <<>>
    /\ idleInTransaction = {}
    /\ locked = {}

\* the map connectionByState with one more (or one replaced) entry
WithEntry(m, key, val) ==
    [x \in (DOMAIN m) \cup {key} |-> IF x = key THEN val ELSE m[x]]

\* lines 195-209: one turn of the loop, for a key not delivered before
ConnLoopBody(k) ==
    /\ UNCHANGED notConn
    /\ pcConn = "loop"
    /\ k \in (DOMAIN connections) \ visited
    /\ visited' = visited \cup {k}
    /\ total' = AddLast(total, connections[k])
    /\ connectionByState' =
          LET state == CanonicalState(k)
              byState == IF state \in DOMAIN connectionByState
                         THEN connectionByState[state]
                         ELSE NewAggregate("NanSum")
          IN WithEntry(connectionByState, state, AggAdd(byState, k, connections[k]))
    /\ UNCHANGED <<connections, settings, connectionsCheck, pcConn, chart,
                   idleInTransaction, locked>>

\* lines 210-218: the "reserved" aggregate and the reserved settings
ConnReserved ==
    /\ UNCHANGED notConn
    /\ pcConn = "loop"
    /\ visited = DOMAIN connections
    /\ connectionByState' =
          WithEntry(connectionByState, "reserved",
                    AggAdd(AggAdd(NewAggregate("NanSum"),
                                  ReservedSettings[1], settings[ReservedSettings[1]]),
                           ReservedSettings[2], settings[ReservedSettings[2]]))
    /\ total' = AddReserved(total, settings)
    /\ pcConn' = "check"
    /\ UNCHANGED <<connections, settings, connectionsCheck, visited, chart,
                   idleInTransaction, locked>>

\* lines 219-223: the saturation check
ConnCheck ==
    /\ UNCHANGED notConn
    /\ pcConn = "check"
    /\ connectionsCheck' =
          IF ConnExceeds(total, Last(settings["max_connections"]),
                         connectionsCheck.Threshold)
          THEN AddItem(connectionsCheck, InstanceName)
          ELSE connectionsCheck
    /\ pcConn' = "chart"
    /\ UNCHANGED <<connections, settings, visited, connectionByState, total,
                   chart, idleInTransaction, locked>>

\* lines 225-232: the chart gets the series of every aggregate; the order in
\* which the range loop visits them changes nothing
ConnChart ==
    /\ UNCHANGED notConn
    /\ pcConn = "chart"
    /\ chart' = [state \in DOMAIN connectionByState |->
                    AggSeries(connectionByState[state])]
    /\ connectionByState' =
          [state \in DOMAIN connectionByState |-> AggGet(connectionByState[state])]
    /\ pcConn' = "breakdowns"
    /\ UNCHANGED <<connections, settings, connectionsCheck, visited,
                   total, idleInTransaction, locked>>

\* lines 234-252: the keys of the two breakdown charts
ConnBreakdowns ==
    /\ UNCHANGED notConn
    /\ pcConn = "breakdowns"
    /\ idleInTransaction' =
          {k \in DOMAIN connections : k.State = "idle in transaction"}
    /\ locked' =
          {k \in DOMAIN connections :
              k.State # "idle in transaction"
              /\ k.State = "active" /\ k.WaitEventType = "Lock"}
    /\ pcConn' = "done"
    /\ UNCHANGED <<connections, settings, connectionsCheck, visited,
                   connectionByState, total, chart>>

ConnNext ==
    \/ \E k \in ConnKeys : ConnLoopBody(k)
    \/ ConnReserved
    \/ ConnCheck
    \/ ConnChart
    \/ ConnBreakdowns


\* -------------------------------------------------------------- postgres
\* One pass of postgres() over the instances, as far as the Aggregates are
\* concerned: which are created, and the Add and Get calls made on each.
\* The sample values play no part in that and are left out: every series
\* added here is the empty one.
MaxInstances == 2    \* most instances of the application

\* an instance: Postgres and WalCurrentLsn tell whether the pointer is set
PgInstances ==
    [Postgres : {TRUE}, WalCurrentLsn : BOOLEAN,
     QueriesByDB : {{}, {"db"}},
     Connections : {{}, {[State |-> "active", WaitEventType |-> ""],
                         [State |-> "active", WaitEventType |-> "Lock"]}},
     Obsolete : BOOLEAN]
    \cup
    [Postgres : {FALSE}, WalCurrentLsn : {FALSE}, QueriesByDB : {{}},
     Connections : {{}}, Obsolete : {FALSE}]

\* Application.IsPostgres: some instance carries postgres metrics
IsPostgres(is) == \E n \in 1..Len(is) : is[n].Postgres

primaryLsnId == <<"primaryLsn", 0>>

\* an aggregate after one Add per element of srcs
RECURSIVE AddAll(_, _)
AddAll(agg, srcs) ==
    IF srcs = {} THEN agg
    ELSE LET src == CHOOSE x \in srcs : TRUE
         IN AddAll(AggAdd(agg, src, <<>>), srcs \ {src})

\* sumQueries (lines 287-293): a new aggregate, one Add per database, Get
SumQueriesAggregate(byDB) == AggGet(AddAll(NewAggregate("NanSum"), byDB))

\* line 66: a new aggregate, the error and the critical series, Get
ErrorsAggregate ==
    AggGet(AggAdd(AggAdd(NewAggregate("NanSum"), "error", <<>>), "critical", <<>>))

\* pgConnections (lines 193-232): the state of every aggregate of
\* connectionByState when the function returns
ConnectionAggregates(conns) ==
    [state \in {CanonicalState(k) : k \in conns} \cup {"reserved"} |->
        IF state = "reserved"
        THEN AggGet(AggAdd(AggAdd(NewAggregate("NanSum"),
                                  ReservedSettings[1], <<>>),
                           ReservedSettings[2], <<>>))
        ELSE AggGet(AddAll(NewAggregate("NanSum"),
                           {k \in conns : CanonicalState(k) = state}))]

\* line 81: primaryLsn.Get() inside the loop over the instances
GetPrimaryLsn(a) == [a EXCEPT ![primaryLsnId] = AggGet(@)]

\* the aggregates after the body of the second loop has run for instance n
AfterInstance(a, n, inst) ==
    LET byState == ConnectionAggregates(inst.Connections)
        new == {<<"qps", n>>, <<"errors", n>>} \cup {<<state, n>> : state \in DOMAIN byState}
        got == GetPrimaryLsn(a)
    IN [id \in (DOMAIN a) \cup new |->
          IF id = <<"qps", n>> THEN SumQueriesAggregate(inst.QueriesByDB)
          ELSE IF id = <<"errors", n>> THEN ErrorsAggregate
          ELSE IF id \in new THEN byState[id[1]]
          ELSE got[id]]

InstanceSeqs == UNION {[1..n -> PgInstances] : n \in 0..MaxInstances}

AuditInit ==
    /\ instances \in InstanceSeqs
    /\ pcAudit = "start"
    /\ idx = 0
    /\ aggs = <<>>
    /\ tableRows = <<>>

\* lines 27-29: not a postgres application
AuditReturn ==
    /\ UNCHANGED notAudit
    /\ pcAudit = "start"
    /\ ~IsPostgres(instances)
    /\ pcAudit' = "done"
    /\ UNCHANGED <<instances, idx, aggs, tableRows>>

\* lines 31-38: the report, the checks and the primaryLsn aggregate
AuditBegin ==
    /\ UNCHANGED notAudit
    /\ pcAudit = "start"
    /\ IsPostgres(instances)
    /\ aggs' = [id \in {primaryLsnId} |-> NewAggregate("Max")]
    /\ idx' = 1
    /\ pcAudit' = "collect"
    /\ UNCHANGED <<instances, tableRows>>

\* lines 39-43: one turn of the first loop
AuditCollect ==
    /\ UNCHANGED notAudit
    /\ pcAudit = "collect"
    /\ idx <= Len(instances)
    /\ aggs' = IF instances[idx].Postgres /\ instances[idx].WalCurrentLsn
               THEN [aggs EXCEPT ![primaryLsnId] = AggAdd(@, idx, <<>>)]
               ELSE aggs
    /\ idx' = idx + 1
    /\ UNCHANGED <<instances, pcAudit, tableRows>>

\* the first loop ends, the second starts
AuditCollected ==
    /\ UNCHANGED notAudit
    /\ pcAudit = "collect"
    /\ idx > Len(instances)
    /\ idx' = 1
    /\ pcAudit' = "audit"
    /\ UNCHANGED <<instances, aggs, tableRows>>

\* lines 45-48: an instance without postgres metrics is passed over
AuditNoPostgres ==
    /\ UNCHANGED notAudit
    /\ pcAudit = "audit"
    /\ idx <= Len(instances)
    /\ ~instances[idx].Postgres
    /\ idx' = idx + 1
    /\ UNCHANGED <<instances, pcAudit, aggs, tableRows>>

\* lines 49-118: one turn of the second loop
AuditInstance ==
    /\ UNCHANGED notAudit
    /\ pcAudit = "audit"
    /\ idx <= Len(instances)
    /\ instances[idx].Postgres
    /\ aggs' = AfterInstance(aggs, idx, instances[idx])
    /\ tableRows' = IF instances[idx].Obsolete THEN tableRows
                    ELSE Append(tableRows, idx)
    /\ idx' = idx + 1
    /\ UNCHANGED <<instances, pcAudit>>

\* line 119: the second loop ends
AuditEnd ==
    /\ UNCHANGED notAudit
    /\ pcAudit = "audit"
    /\ idx > Len(instances)
    /\ pcAudit' = "done"
    /\ UNCHANGED <<instances, idx, aggs, tableRows>>

AuditNext ==
    \/ AuditReturn
    \/ AuditBegin
    \/ AuditCollect
    \/ AuditCollected
    \/ AuditNoPostgres
    \/ AuditInstance
    \/ AuditEnd

\* ----------------------------------------------------------- deployments
MaxStatuses == 3     \* most deployments of the application

ApplicationDeploymentStateSummary == "summary"
ApplicationDeploymentStateDeployed == "deployed"
ApplicationDeploymentStateStuck == "stuck"
ApplicationDeploymentStateInProgress == "in progress"
ApplicationDeploymentStateCancelled == "cancelled"

DeploymentStates ==
    {ApplicationDeploymentStateSummary, ApplicationDeploymentStateDeployed,
     ApplicationDeploymentStateStuck, ApplicationDeploymentStateInProgress,
     ApplicationDeploymentStateCancelled}

\* timeseries.Now() and Deployment.StartedAt, in seconds
NowTimes == {1000, 16778000}
StartTimes == {700, 783, 900}

\* a deployment status; Summary is len(ds.Summary)
DeploymentStatuses ==
    [State : DeploymentStates, StartedAt : StartTimes, Summary : {0}]
    \cup
    [State : {ApplicationDeploymentStateSummary}, StartedAt : StartTimes, Summary : {1}]

StatusSeqs == UNION {[1..n -> DeploymentStatuses] : n \in 0..MaxStatuses}

\* the spacing of the float32 values around x >= 0 (24 bits of mantissa)
RECURSIVE Ulp32(_)
Ulp32(x) == IF x < 16777216 THEN 1 ELSE 2 * Ulp32(x \div 2)

\* float32(x) for an integer x >= 0: the nearest float32, ties to even
Float32(x) ==
    LET u == Ulp32(x)
        q == x \div u
        r == x % u
    IN IF 2 * r < u THEN q * u
       ELSE IF 2 * r > u THEN (q + 1) * u
       ELSE IF q % 2 = 0 THEN q * u ELSE (q + 1) * u

\* Check.SetValue: the last value set is the Check's value
SetValue(check, v) == [set |-> TRUE, value |-> v]

\* the value kept from the first stuck deployment the loop meets
CheckAfterStatusFirstWins(check, ds, tm) ==
    IF ds.State = ApplicationDeploymentStateStuck /\ ~check.set
    THEN SetValue(check, Float32(tm - ds.StartedAt))
    ELSE check

\* lines 28-52 on the Check: only a stuck deployment sets the value
CheckAfterStatus(check, ds, tm) ==
    IF ds.State = ApplicationDeploymentStateStuck
    THEN SetValue(check, Float32(tm - ds.StartedAt))
    ELSE check

\* lines 27-52: what the summary cell of the row holds
SummaryCell(ds, i, n) ==
    IF ds.State = ApplicationDeploymentStateSummary
    THEN IF ds.Summary > 0 THEN "summaries" ELSE "No notable changes"
    ELSE IF ds.State = ApplicationDeploymentStateDeployed
    THEN IF i = n THEN "Collecting data..." ELSE "Not enough data"
    ELSE IF ds.State = ApplicationDeploymentStateStuck THEN "not ok"
    ELSE "message"

DeployInit ==
    /\ statuses \in StatusSeqs
    /\ now \in NowTimes
    /\ pcDeploy = "start"
    /\ dsIdx = 0
    /\ deploymentStatusCheck = [set |-> FALSE, value |-> 0]
    /\ table = <<>>

\* lines 10-12: no deployment, no report
DeployReturn ==
    /\ UNCHANGED notDeploy
    /\ pcDeploy = "start"
    /\ Len(statuses) = 0
    /\ pcDeploy' = "done"
    /\ UNCHANGED <<statuses, now, dsIdx, deploymentStatusCheck, table>>

\* lines 13-19: the report, the Check, the table; i := len(statuses) - 1
DeployBegin ==
    /\ UNCHANGED notDeploy
    /\ pcDeploy = "start"
    /\ Len(statuses) > 0
    /\ dsIdx' = Len(statuses)
    /\ pcDeploy' = "loop"
    /\ UNCHANGED <<statuses, now, deploymentStatusCheck, table>>

\* lines 19-55: one turn of the loop, then i--
DeployStatus ==
    /\ UNCHANGED notDeploy
    /\ pcDeploy = "loop"
    /\ dsIdx >= 1
    /\ deploymentStatusCheck' =
          CheckAfterStatus(deploymentStatusCheck, statuses[dsIdx], now)
    /\ table' = Append(table,
                       [Id |-> dsIdx,
                        Summary |-> SummaryCell(statuses[dsIdx], dsIdx, Len(statuses))])
    /\ dsIdx' = dsIdx - 1
    /\ UNCHANGED <<statuses, now, pcDeploy>>

\* line 19: i >= 0 fails, the loop ends
DeployEnd ==
    /\ UNCHANGED notDeploy
    /\ pcDeploy = "loop"
    /\ dsIdx < 1
    /\ pcDeploy' = "done"
    /\ UNCHANGED <<statuses, now, dsIdx, deploymentStatusCheck, table>>

DeployNext ==
    \/ DeployReturn
    \/ DeployBegin
    \/ DeployStatus
    \/ DeployEnd

\* ---------------------------------------------------------- idle values
LagIdle ==
    /\ grid = [from |-> 10, step |-> 1]
    /\ primaryLsn = <<>>
    /\ replayLsn = <<>>
    /\ role = ClusterRoleNone
    /\ replicationCheck = [Threshold |-> 0, items |-> <<>>]
    /\ pcLag = "idle"
    /\ last = NaN
    /\ tCurr = 0 /\ vCurr = NaN
    /\ iter = 0
    /\ t = 0 /\ tPast = 0 /\ vPast = NaN
    /\ lagTime = 0
    /\ res = EmptyCell

ConnIdle ==
    /\ connections = <<>>
    /\ settings = <<>>
    /\ connectionsCheck = [Threshold |-> 0, items |-> <<>>]
    /\ pcConn = "idle"
    /\ visited = {}
    /\ connectionByState = <<>>
    /\ total = 0
    /\ chart = <<>>
    /\ idleInTransaction = {}
    /\ locked = {}

AuditIdle ==
    /\ instances = <<>>
    /\ pcAudit = "idle"
    /\ idx = 0
    /\ aggs = <<>>
    /\ tableRows = <<>>

DeployIdle ==
    /\ statuses = <<>>
    /\ now = 0
    /\ pcDeploy = "idle"
    /\ dsIdx = 0
    /\ deploymentStatusCheck = [set |-> FALSE, value |-> 0]
    /\ table = <<>>

\* -------------------------------------------------------- specifications
InitLag == LagInit /\ ConnIdle /\ AuditIdle /\ DeployIdle

InitConn == ConnInit /\ LagIdle /\ AuditIdle /\ DeployIdle

InitAudit == AuditInit /\ LagIdle /\ ConnIdle /\ DeployIdle

InitDeploy == DeployInit /\ LagIdle /\ ConnIdle /\ AuditIdle

SpecLag == InitLag /\ [][LagNext]_vars

SpecConn == InitConn /\ [][ConnNext]_vars

SpecAudit == InitAudit /\ [][AuditNext]_vars

SpecDeploy == InitDeploy /\ [][DeployNext]_vars

\* ================================================= checkReplicationLag claims
\* the byte lag L, read off the inputs
ByteLag ==
    IF Len(primaryLsn) = 0 \/ Len(replayLsn) = 0 THEN NaN
    ELSE IF primaryLsn[Len(primaryLsn)] = NaN \/ replayLsn[Len(replayLsn)] = NaN THEN NaN
    ELSE IF primaryLsn[Len(primaryLsn)] < replayLsn[Len(replayLsn)] THEN 0
    ELSE primaryLsn[Len(primaryLsn)] - replayLsn[Len(replayLsn)]

\* the conditions under which checkReplicationLag has a result
LagGuard == Len(primaryLsn) > 0 /\ role = ClusterRoleReplica /\ ByteLag # NaN

\* v_now: the latest value of P that is not NaN
VNow == primaryLsn[MaxOf({i \in 1..Len(primaryLsn) : primaryLsn[i] # NaN})]

TNow == TimeAt(grid, MaxOf({i \in 1..Len(primaryLsn) : primaryLsn[i] # NaN}))

\* the position the replica has reached: v_now - L
Target == VNow - ByteLag

LagHasResult == pcLag = "done" /\ LagGuard

\* sample i is skipped: its value is above v_now
Skipped(i) == primaryLsn[i] # NaN /\ primaryLsn[i] > VNow

FirstOr(S, dflt) == IF S = {} THEN dflt ELSE MinOf(S)

TimeOfLast(S) == IF S = {} THEN 0 ELSE TimeAt(grid, MaxOf(S))

\* the first sample that is not skipped and whose value is above v_now - L
StopIdx ==
    FirstOr({i \in 1..Len(primaryLsn) :
                primaryLsn[i] # NaN /\ ~Skipped(i) /\ primaryLsn[i] > Target},
            Len(primaryLsn) + 1)

\* the samples before the stop that are not skipped: each has v <= v_now - L
\* or is NaN
Tracked == {i \in 1..(StopIdx - 1) : ~Skipped(i)}

\* C1 (as amended): t_past is the time of the most recent non-skipped sample
\* before the stop, each of which has v <= v_now - L or no value (NaN); the
\* scan stops at the first non-skipped sample with v > v_now - L; t_past is
\* the zero time when there is no such sample; timeLag = t_now - t_past.
C1_TPastIsLastSampleNotAhead ==
    LagHasResult =>
        /\ tPast = TimeOfLast(Tracked)
        /\ \A i \in Tracked : primaryLsn[i] = NaN \/ primaryLsn[i] <= Target
        /\ iter = IF StopIdx <= Len(primaryLsn) THEN StopIdx ELSE Len(primaryLsn)
        /\ lagTime = TNow - tPast

C1_Witness ==
    /\ LagHasResult
    /\ StopIdx <= Len(primaryLsn)
    /\ Tracked # {}
    /\ \E i \in 1..Len(primaryLsn) : Skipped(i)
    /\ ByteLag > 0

\* the scan as the claim words it: stop at the first non-skipped sample with
\* v < v_now - L, t_past the most recent non-skipped sample with v >= v_now - L
StopIdxAsClaimed ==
    FirstOr({i \in 1..Len(primaryLsn) :
                primaryLsn[i] # NaN /\ ~Skipped(i) /\ primaryLsn[i] < Target},
            Len(primaryLsn) + 1)

\* C1 (as stated): t_past is the time of the most recent non-skipped sample
\* for which v >= v_now - L held, the scan stopping at the first non-skipped
\* sample where v < v_now - L.
C1_AsStated ==
    LagHasResult =>
        tPast = TimeOfLast({i \in 1..(StopIdxAsClaimed - 1) :
                    primaryLsn[i] # NaN /\ ~Skipped(i) /\ primaryLsn[i] >= Target})

\* C2: the instance is recorded on the Check exactly when P is non-empty, the
\* role is replica, L is not NaN and timeLag is above the threshold; without
\* a result the Check is unchanged and the cell is empty.
C2_RecordedIffGuardAndLagAboveThreshold ==
    [][(pcLag # "done" /\ pcLag' = "done") =>
          /\ replicationCheck' =
                IF LagGuard /\ 2 * lagTime' > replicationCheck.Threshold
                THEN [replicationCheck EXCEPT !.items = Append(@, InstanceName)]
                ELSE replicationCheck
          /\ (~LagGuard => res' = [Value |-> <<>>, Unit |-> "", Tags |-> <<>>])
          /\ (LagGuard => res'.Value # <<>>)]_vars

C2_Witness ==
    /\ LagHasResult
    /\ replicationCheck.items = <<OtherInstance, InstanceName>>
    /\ replicationCheck.Threshold > 0

\* P has no NaN and rises by the same c > 0 at every step
ConstantSlope(c) ==
    /\ Len(primaryLsn) >= 2
    /\ \A i \in 1..Len(primaryLsn) : primaryLsn[i] # NaN
    /\ \A i \in 1..(Len(primaryLsn) - 1) : primaryLsn[i + 1] = primaryLsn[i] + c

\* C3: P rising by c > 0 per step over n samples and L = k*c with 0 < k < n
\* give timeLag = k steps, without the ">" prefix.
C3_ConstantSlopeLag ==
    \A c \in 1..MaxVal : \A k \in 1..(Len(primaryLsn) - 1) :
        (LagHasResult /\ ConstantSlope(c) /\ ByteLag = k * c) =>
            /\ lagTime = k * grid.step
            /\ res.Tags = <<[gt |-> FALSE, d |-> k * grid.step]>>

C3_Witness ==
    /\ LagHasResult
    /\ ConstantSlope(1)
    /\ Len(primaryLsn) = 3
    /\ ByteLag = 2

NoNaN == \A i \in 1..Len(primaryLsn) : primaryLsn[i] # NaN

\* the samples after which the counter dropped
Resets == {i \in 1..(Len(primaryLsn) - 1) : primaryLsn[i + 1] < primaryLsn[i]}

\* C4: with a counter reset in P, no sample from before the (latest) reset is
\* t_past, and when no sample after the reset is at or below v_now - L the
\* result is a lower bound only, whatever the samples before the reset are.
C4_NoPreResetSampleIsTPast ==
    (LagHasResult /\ NoNaN /\ Resets # {}) =>
        /\ IsZero(tPast) \/ tPast > TimeAt(grid, MaxOf(Resets))
        /\ (\A i \in (MaxOf(Resets) + 1)..Len(primaryLsn) : primaryLsn[i] > Target)
              => IsZero(tPast)

\* C5: the result is a lower bound only exactly when no sample with a value
\* qualified as t_past, and a NaN sample is never t_past.
C5_LowerBoundIffNoDefinedSampleQualified ==
    LagHasResult =>
        /\ IsZero(tPast) <=> {i \in Tracked : primaryLsn[i] # NaN} = {}
        /\ \A i \in 1..Len(primaryLsn) :
              tPast = TimeAt(grid, i) => primaryLsn[i] # NaN

\* C6: a lower-bound-only timeLag is not above the span of the retained
\* history of P, t_now minus the time of the oldest sample.
C6_LowerBoundWithinWindow ==
    (LagHasResult /\ IsZero(tPast)) => lagTime <= TNow - TimeAt(grid, 1)

\* ======================================================= pgConnections claims
NanToZero(v) == IF v = NaN THEN 0 ELSE v

RECURSIVE SumOver(_, _)
SumOver(f, S) ==
    IF S = {} THEN 0
    ELSE LET x == CHOOSE y \in S : TRUE IN f[x] + SumOver(f, S \ {x})

\* the latest value of every canonical bucket, "reserved" included
BucketLast == [b \in DOMAIN connectionByState |->
                  NanToZero(Last(AggSeries(connectionByState[b])))]

\* the sum of the latest values of all canonical buckets
BucketTotal == SumOver(BucketLast, DOMAIN connectionByState)

\* the latest value of max_connections, NaN when the setting is absent
MaxConnections ==
    IF Len(settings["max_connections"]) = 0 THEN NaN
    ELSE settings["max_connections"][Len(settings["max_connections"])]

\* C7: the instance is recorded on the connections Check, once, exactly
\* when max_connections > 0, total > 0 and total / max * 100 > threshold, the
\* total being the sum of the latest values of all canonical buckets with
\* "reserved"; otherwise the Check is unchanged.
C7_RecordedIffSaturated ==
    [][connectionsCheck' =
          IF /\ pcConn = "check"
             /\ MaxConnections # NaN /\ MaxConnections > 0
             /\ BucketTotal > 0
             /\ BucketTotal * 100 > connectionsCheck.Threshold * MaxConnections
          THEN [connectionsCheck EXCEPT !.items = Append(@, InstanceName)]
          ELSE connectionsCheck]_vars

C7_Witness ==
    /\ pcConn = "done"
    /\ connectionsCheck.items = <<OtherInstance, InstanceName>>
    /\ Len(settings[ReservedSettings[2]]) > 0
    /\ \E k \in DOMAIN connections : connections[k][1] = NaN
    /\ BucketTotal * 100 <= 100 * MaxConnections

\* the bucket a key belongs to
BucketOf(k) ==
    IF k.State = "active" /\ k.WaitEventType = "Lock" THEN "active (locked)"
    ELSE k.State

\* the places (bucket, position) where the series of key k was added
AddedAt(k) ==
    UNION {{<<b, j>> : j \in {n \in 1..Len(connectionByState[b].input) :
                                connectionByState[b].input[n].src = k}} :
           b \in (DOMAIN connectionByState) \ {"reserved"}}

RawLast == [k \in DOMAIN connections |-> NanToZero(connections[k][1])]

\* C8: every raw series the loop has delivered is in exactly one canonical
\* bucket, once: "active (locked)" for (active, Lock), its raw state
\* otherwise; so the buckets without "reserved" sum to the NaN-ignoring sum
\* of the raw series.
C8_EachSeriesInOneBucket ==
    pcConn # "idle" =>
        /\ \A k \in visited :
              /\ BucketOf(k) \in DOMAIN connectionByState
              /\ \E j \in 1..Len(connectionByState[BucketOf(k)].input) :
                    AddedAt(k) = {<<BucketOf(k), j>>}
        /\ \A k \in (DOMAIN connections) \ visited : AddedAt(k) = {}
        /\ SumOver(BucketLast, (DOMAIN connectionByState) \ {"reserved"})
              = SumOver(RawLast, visited)

C8_Witness ==
    /\ pcConn = "done"
    /\ DOMAIN connections = ConnKeys
    /\ \A k \in ConnKeys : connections[k][1] = 1
    /\ BucketLast["active"] = 1
    /\ BucketLast["active (locked)"] = 1

\* ============================================================ postgres claims
\* the calls on an aggregate are Adds, then at most one Get, which is last
AddsThenGet(log) == \A j \in 1..(Len(log) - 1) : log[j] = "add"

\* C9: every Aggregate of a pass sees zero or more Adds and then a single
\* terminal Get: no Add after the Get, and exactly one Get by the end.
C9_AddsThenOneGet ==
    \A id \in DOMAIN aggs :
        /\ AddsThenGet(aggs[id].log)
        /\ pcAudit = "done" =>
              (Len(aggs[id].log) > 0 /\ aggs[id].log[Len(aggs[id].log)] = "get")

\* ========================================================= deployments claims
StuckIdx == {j \in 1..Len(statuses) : statuses[j].State = "stuck"}

\* C10: the statuses are processed from the last index down to the first,
\* one table row each; the Check ends with the value for the stuck deployment
\* of the smallest index, and with no value when no deployment is stuck.
C10_LastWriteWins ==
    pcDeploy = "done" =>
        /\ Len(table) = Len(statuses)
        /\ \A j \in 1..Len(table) : table[j].Id = Len(statuses) + 1 - j
        /\ StuckIdx = {} => ~deploymentStatusCheck.set
        /\ StuckIdx # {} =>
              /\ deploymentStatusCheck.set
              /\ deploymentStatusCheck.value =
                    Float32(now - statuses[MinOf(StuckIdx)].StartedAt)

C10_Witness ==
    /\ pcDeploy = "done"
    /\ Cardinality(StuckIdx) >= 2
    /\ MinOf(StuckIdx) > 1
    /\ \A j \in StuckIdx \ {MinOf(StuckIdx)} :
          statuses[j].StartedAt # statuses[MinOf(StuckIdx)].StartedAt
    /\ deploymentStatusCheck.value = 16777216

====
